---------------------------- MODULE Spec2Model ----------------------------
(***************************************************************************)
(* A model of ptb.py: the lexer/parser for Penn Treebank bracketings, the  *)
(* traversal engine, the transforms remove_empty_elements,                 *)
(* simplify_labels and add_root, and the span query all_spans.             *)
(*                                                                         *)
(* Strings are sequences of one-character strings, so that the label       *)
(* grammar of Symbol is computed character by character.  TExpr objects    *)
(* live in a heap (a sequence of records, a node's identity is its index); *)
(* a reference is a heap index and NoNode is Python's None for a           *)
(* reference.  Leaf and Symbol objects are records, and hasattr(x, a) is   *)
(* `a \in DOMAIN x`.                                                        *)
(***************************************************************************)
EXTENDS Integers, Sequences, FiniteSets, TLC

VARIABLES
    consumed,   \* the tokens lex() has produced so far
    stack,      \* parse(): the local list `stack`
    heap,       \* the TExpr objects allocated so far
    pc,         \* "parse": the generator runs; "yield": suspended at its yield;
                \* "done": it returned; "error": an exception propagated
    err,        \* the exception's type when pc = "error"
    t,          \* the caller's variable t: the tree it holds (NoNode: none)
    ntrees,     \* how many trees parse() has yielded
    ops,        \* the calls the caller has made on t, in order
    ret,        \* what the last of those calls returned
    orig,       \* the tree as parse() yielded it: its heap and its root
    rt_label,   \* a label string given to Symbol on its own (None: none is)
    rt_sym,     \* <<Symbol(rt_label)>> once it is decoded
    rt_str,     \* <<str(rt_sym)>> once it is serialized
    rt_sym2     \* <<Symbol(rt_str)>> once that is decoded

\* The variables of parse and its caller, and those of a label's round trip.
parse_vars == <<consumed, stack, heap, pc, err, t, ntrees, ops, ret, orig>>
rt_vars == <<rt_label, rt_sym, rt_str, rt_sym2>>

vars == <<parse_vars, rt_vars>>

-----------------------------------------------------------------------------
(* Bounds of the model *)

\* Every token stream of at most MaxFree tokens is an input.
MaxFree == 5
\* Every treebank-shaped token stream of at most MaxTokens tokens is an input.
MaxTokens == 16
\* The caller calls add_root at most MaxAddRoot times on one tree.
MaxAddRoot == 2
\* The longest label string given to Symbol on its own.
MaxLabelLen == 5

-----------------------------------------------------------------------------
(* Values *)

None == <<>>
NoNode == 0

Str_NONE == <<"-", "N", "O", "N", "E", "-">>
Str_ROOT == <<"R", "O", "O", "T">>
Str_TOP == <<"T", "O", "P">>
Str_NP_SBJ_1 == <<"N", "P", "-", "S", "B", "J", "-", "1">>
Str_xx == <<"x", "x">>
Str_X == <<"X">>

\* The atoms the input streams are made of.
Atoms == {Str_NP_SBJ_1, Str_ROOT, Str_NONE, Str_xx}
\* The atoms a treebank-shaped stream has after "(" (a dummy root label
\* only after a top-level "(") and after a tag.
LabelAtoms == {Str_NP_SBJ_1, Str_NONE}
TopLabelAtoms == LabelAtoms \cup {Str_ROOT}
WordAtoms == {Str_xx}
\* The root labels the caller passes to add_root.
RootLabels == {Str_ROOT, Str_TOP, Str_X}

-----------------------------------------------------------------------------
(* Lexer: tokens *)

LPAREN_TOKEN == "LPAREN_TOKEN"
RPAREN_TOKEN == "RPAREN_TOKEN"
STRING_TOKEN == "STRING_TOKEN"

\* Token(token_id, value); a stack entry that is a TExpr has token_id
\* "TExpr" (it has no attribute token_id) and its reference in ref.
Token(token_id, value) == [token_id |-> token_id, value |-> value, ref |-> NoNode]
TExprRef(n) == [token_id |-> "TExpr", value |-> None, ref |-> n]

Tokens ==
    {Token(LPAREN_TOKEN, None), Token(RPAREN_TOKEN, None)}
        \cup {Token(STRING_TOKEN, a) : a \in Atoms}

istok(x, i) == x.token_id = i

-----------------------------------------------------------------------------
(* Symbol: the label grammar *)

Digits == {"0", "1", "2", "3", "4", "5", "6", "7", "8", "9"}
IsDigit(c) == c \in Digits
\* the character class [^0-9=-]
IsLabelChar(c) == c \notin Digits /\ c # "=" /\ c # "-"

\* The end (exclusive) of the longest run of [^0-9=-] that starts at i.
RECURSIVE LabelRunEnd(_, _)
LabelRunEnd(s, i) ==
    IF i <= Len(s) /\ IsLabelChar(s[i]) THEN LabelRunEnd(s, i + 1) ELSE i

\* The end (exclusive) of the longest run of [0-9] that starts at i.
RECURSIVE DigitRunEnd(_, _)
DigitRunEnd(s, i) ==
    IF i <= Len(s) /\ IsDigit(s[i]) THEN DigitRunEnd(s, i + 1) ELSE i

\* _pat.finditer(label) and the loop over its matches: at position i the
\* alternatives are tried in order, a match moves to its end, no match
\* moves one character on.
RECURSIVE SymbolScan(_, _, _)
SymbolScan(s, i, sym) ==
    IF i > Len(s) THEN sym
    ELSE IF i = 1 /\ IsLabelChar(s[1]) THEN
        LET j == LabelRunEnd(s, 1)
        IN  SymbolScan(s, j, [sym EXCEPT !.label = SubSeq(s, 1, j - 1)])
    ELSE IF s[i] = "-" /\ i < Len(s) /\ IsLabelChar(s[i + 1]) THEN
        LET j == LabelRunEnd(s, i + 1)
        IN  SymbolScan(s, j,
                [sym EXCEPT !.tags = Append(@, SubSeq(s, i + 1, j - 1))])
    ELSE IF s[i] = "=" /\ i < Len(s) /\ IsDigit(s[i + 1]) THEN
        LET j == DigitRunEnd(s, i + 1)
        IN  SymbolScan(s, j,
                [sym EXCEPT !.parindex = <<SubSeq(s, i + 1, j - 1)>>])
    ELSE IF s[i] = "-" /\ i < Len(s) /\ IsDigit(s[i + 1]) THEN
        LET j == DigitRunEnd(s, i + 1)
        IN  SymbolScan(s, j,
                [sym EXCEPT !.coindex = <<SubSeq(s, i + 1, j - 1)>>])
    ELSE SymbolScan(s, i + 1, sym)

\* Symbol(label).  coindex and parindex are None or a one-element sequence
\* holding the string.
Symbol(label) ==
    SymbolScan(label, 1,
        [label |-> label, tags |-> <<>>, coindex |-> None, parindex |-> None])

\* Symbol.simplify
simplify(sym) ==
    [sym EXCEPT !.tags = <<>>, !.coindex = None, !.parindex = None]

\* A variant of JoinTags that writes the tags without their "-".
RECURSIVE JoinTagsBare(_)
JoinTagsBare(tags) ==
    IF tags = <<>> THEN <<>> ELSE Head(tags) \o JoinTagsBare(Tail(tags))

RECURSIVE JoinTags(_)
JoinTags(tags) ==
    IF tags = <<>> THEN <<>>
    ELSE <<"-">> \o Head(tags) \o JoinTags(Tail(tags))

\* Symbol.__str__
SymbolStr(sym) ==
    sym.label
        \o JoinTags(sym.tags)
        \o (IF sym.parindex # None THEN <<"=">> \o sym.parindex[1] ELSE <<>>)
        \o (IF sym.coindex # None THEN <<"-">> \o sym.coindex[1] ELSE <<>>)

-----------------------------------------------------------------------------
(* Leaf and TExpr *)

Leaf(word, pos) == [word |-> word, pos |-> pos]

\* TExpr.__init__ has three required parameters after self.
TExpr_nparams == 3
TExpr(head, first_child, next_sibling) ==
    [head |-> head, first_child |-> first_child, next_sibling |-> next_sibling]

\* TExpr.symbol: the head if it has a label, else None
symbol(h, tx) == IF "label" \in DOMAIN h[tx].head THEN h[tx].head ELSE None
\* TExpr.leaf: the head if it has a pos, else None
leaf(h, tx) == IF "pos" \in DOMAIN h[tx].head THEN h[tx].head ELSE None

\* TExpr.children, as the list of the references it generates
RECURSIVE SiblingsFrom(_, _)
SiblingsFrom(h, n) ==
    IF n = NoNode THEN <<>> ELSE <<n>> \o SiblingsFrom(h, h[n].next_sibling)
children(h, tx) == SiblingsFrom(h, h[tx].first_child)

-----------------------------------------------------------------------------
(* parse *)

Last(s) == s[Len(s)]
Pop(s) == SubSeq(s, 1, Len(s) - 1)

\* The while loop of parse: pop to the last "(".  A popped string makes a
\* fresh TExpr labelled by it over the children popped so far; a popped
\* TExpr is linked before them.  stack[-1] of an empty stack raises.
RECURSIVE parse_pop_group(_, _, _, _)
parse_pop_group(stk, h, tx, tail) ==
    IF stk = <<>> THEN
        [err |-> "IndexError", stack |-> stk, heap |-> h, tx |-> tx, tail |-> tail]
    ELSE IF istok(Last(stk), LPAREN_TOKEN) THEN
        [err |-> "", stack |-> stk, heap |-> h, tx |-> tx, tail |-> tail]
    ELSE
        LET head == Last(stk)
        IN  IF istok(head, STRING_TOKEN) THEN
                parse_pop_group(Pop(stk),
                    Append(h, TExpr(Symbol(head.value), tail, NoNode)),
                    Len(h) + 1, tail)
            ELSE
                parse_pop_group(Pop(stk),
                    [h EXCEPT ![head.ref].next_sibling = tail],
                    tx, head.ref)

\* The test that the stack ends "(", string, string.  "raise" when an
\* index it evaluates is out of range ("and" evaluates left to right and
\* stops at the first false operand).
parse_is_leaf(stk) ==
    IF Len(stk) < 1 THEN "raise"
    ELSE IF ~istok(stk[Len(stk)], STRING_TOKEN) THEN "no"
    ELSE IF Len(stk) < 2 THEN "raise"
    ELSE IF ~istok(stk[Len(stk) - 1], STRING_TOKEN) THEN "no"
    ELSE IF Len(stk) < 3 THEN "raise"
    ELSE IF ~istok(stk[Len(stk) - 2], LPAREN_TOKEN) THEN "no"
    ELSE "yes"

\* What a leaf group does with the TExpr it made.
parse_leaf_push(stk, n) == Append(stk, TExprRef(n))

\* One iteration of the for loop of parse with tok = ")":
\* [err, stack, heap, yielded] (yielded: the TExpr yielded, or NoNode).
parse_rparen(stk, h) ==
    LET isleaf == parse_is_leaf(stk)
    IN  IF isleaf = "raise" THEN
            [err |-> "IndexError", stack |-> stk, heap |-> h, yielded |-> NoNode]
        ELSE IF isleaf = "yes" THEN
            LET w == Leaf(stk[Len(stk)].value, stk[Len(stk) - 1].value)
            IN  [err |-> "",
                 stack |-> parse_leaf_push(Pop(Pop(Pop(stk))), Len(h) + 1),
                 heap |-> Append(h, TExpr(w, NoNode, NoNode)),
                 yielded |-> NoNode]
        ELSE
            LET g == parse_pop_group(stk, h, NoNode, NoNode)
            IN  IF g.err # "" THEN
                    [err |-> g.err, stack |-> g.stack, heap |-> g.heap,
                     yielded |-> NoNode]
                ELSE
                    LET stk1 == Pop(g.stack)
                        h1 == IF g.tx = NoNode
                              THEN Append(g.heap, TExpr(None, g.tail, NoNode))
                              ELSE g.heap
                        tx == IF g.tx = NoNode THEN Len(g.heap) + 1 ELSE g.tx
                    IN  IF stk1 = <<>> THEN
                            [err |-> "", stack |-> stk1, heap |-> h1,
                             yielded |-> tx]
                        ELSE
                            [err |-> "", stack |-> Append(stk1, TExprRef(tx)),
                             heap |-> h1, yielded |-> NoNode]

\* One iteration of the for loop of parse: "(" and strings are pushed,
\* ")" reduces.
parse_token(stk, h, tok) ==
    IF istok(tok, LPAREN_TOKEN) \/ istok(tok, STRING_TOKEN) THEN
        [err |-> "", stack |-> Append(stk, tok), heap |-> h, yielded |-> NoNode]
    ELSE parse_rparen(stk, h)

-----------------------------------------------------------------------------
(* traverse and the callbacks of the transforms *)

q_none == "q_none"
q_ok == "q_ok"

\* remove_empty_elements.pre(tx, st): a node that is not a leaf opens a
\* list for its children's verdicts.
remove_pre(h, tx, st) ==
    [heap |-> h,
     state |-> IF leaf(h, tx) = None THEN Append(st, <<>>) ELSE st]

\* The links remove_empty_elements.post writes when some children are
\* kept: first_child is the first kept child and each kept child's
\* next_sibling the next kept child (None for the last).
remove_relink(h, tx, cs) ==
    [n \in DOMAIN h |->
        LET a == IF n = tx THEN [h[n] EXCEPT !.first_child = cs[1]] ELSE h[n]
        IN  IF \E i \in DOMAIN cs : cs[i] = n THEN
                LET i == CHOOSE i \in DOMAIN cs : cs[i] = n
                IN  [a EXCEPT !.next_sibling =
                                IF i < Len(cs) THEN cs[i + 1] ELSE NoNode]
            ELSE a]

\* A variant of remove_kept that keeps every child, whatever its verdict.
remove_kept_all(cs) == [i \in DOMAIN cs |-> cs[i][2]]

\* The kept children: the entries of the popped list whose verdict is q_ok.
remove_kept(cs) ==
    LET ok == SelectSeq(cs, LAMBDA e : e[1] = q_ok)
    IN  [i \in DOMAIN ok |-> ok[i][2]]

\* remove_empty_elements.post(tx, st): a leaf is q_none when its tag is
\* -NONE-; another node pops its children's verdicts, relinks the kept
\* ones, and is q_none when none is kept (its links are then left as they
\* are).  The verdict is appended to the list of the node's parent.
remove_post(h, tx, st) ==
    IF leaf(h, tx) # None THEN
        LET q == IF leaf(h, tx).pos = Str_NONE THEN q_none ELSE q_ok
        IN  [heap |-> h,
             state |-> [st EXCEPT ![Len(st)] = Append(@, <<q, tx>>)]]
    ELSE
        LET cs == remove_kept(Last(st))
            st1 == Pop(st)
            q == IF cs # <<>> THEN q_ok ELSE q_none
        IN  [heap |-> IF cs # <<>> THEN remove_relink(h, tx, cs) ELSE h,
             state |-> [st1 EXCEPT ![Len(st1)] = Append(@, <<q, tx>>)]]

\* simplify_labels.proc(tx, st): it returns nothing, so the state is None.
simplify_proc(h, tx, st) ==
    [heap |-> IF symbol(h, tx) # None
              THEN [h EXCEPT ![tx].head = simplify(@)]
              ELSE h,
     state |-> None]

\* all_spans.pre(tx, st): st is (spans, stack, begin, count).
spans_pre(h, tx, st) ==
    [heap |-> h,
     state |-> [spans |-> st.spans,
                stack |-> Append(st.stack, <<st.count, st.begin>>),
                begin |-> st.begin,
                count |-> st.count + 1]]

\* A variant of spans_leaf_end that counts an empty element as a word.
spans_leaf_end_any(pos, begin, end) == begin + 1

\* The end all_spans.post gives a leaf: one past its begin, unless its tag
\* is -NONE-, when the running end is kept.
spans_leaf_end(pos, begin, end) ==
    IF pos # Str_NONE THEN begin + 1 ELSE end

\* all_spans.post(tx, st): st is (spans, stack, end, count).  A label of
\* None and an empty label are both false in `if label:`.
spans_post(h, tx, st) ==
    LET num == Last(st.stack)[1]
        begin == Last(st.stack)[2]
        end == IF leaf(h, tx) # None
               THEN spans_leaf_end(leaf(h, tx).pos, begin, st.begin)
               ELSE st.begin
        label == IF leaf(h, tx) # None THEN leaf(h, tx).pos
                 ELSE IF symbol(h, tx) # None THEN SymbolStr(symbol(h, tx))
                 ELSE <<>>
    IN  [heap |-> h,
         state |-> [spans |-> IF label # <<>>
                              THEN Append(st.spans, <<num, <<label, begin, end>>>>)
                              ELSE st.spans,
                    stack |-> Pop(st.stack),
                    begin |-> end,
                    count |-> st.count]]

\* The callbacks each caller of traverse passes ("" stands for None).
pre_of(f) ==
    CASE f = "remove_empty_elements" -> "remove_pre"
      [] f = "simplify_labels" -> "simplify_proc"
      [] f = "all_spans" -> "spans_pre"
post_of(f) ==
    CASE f = "remove_empty_elements" -> "remove_post"
      [] f = "simplify_labels" -> ""
      [] f = "all_spans" -> "spans_post"

\* cb(tx, state) for the callback named cb, or the state unchanged when cb
\* is None.
call(cb, h, tx, st) ==
    CASE cb = "remove_pre" -> remove_pre(h, tx, st)
      [] cb = "remove_post" -> remove_post(h, tx, st)
      [] cb = "simplify_proc" -> simplify_proc(h, tx, st)
      [] cb = "spans_pre" -> spans_pre(h, tx, st)
      [] cb = "spans_post" -> spans_post(h, tx, st)
      [] OTHER -> [heap |-> h, state |-> st]

\* traverse(tx, pre, post, state), for the caller f: pre, then the
\* children from first_child along next_sibling (each link read after the
\* child before it has been traversed), then post.  The heap is threaded
\* with the state, as the callbacks write to the nodes.
RECURSIVE traverse(_, _, _, _)
RECURSIVE traverse_children(_, _, _, _)
traverse(h, tx, f, st) ==
    LET s1 == call(pre_of(f), h, tx, st)
        s2 == traverse_children(s1.heap, s1.heap[tx].first_child, f, s1.state)
    IN  call(post_of(f), s2.heap, tx, s2.state)
traverse_children(h, c, f, st) ==
    IF c = NoNode THEN [heap |-> h, state |-> st]
    ELSE LET r == traverse(h, c, f, st)
         IN  traverse_children(r.heap, r.heap[c].next_sibling, f, r.state)

-----------------------------------------------------------------------------
(* Transforms *)

\* remove_empty_elements(tx): the heap after it.  It has no return
\* statement: it returns None whatever the traversal found.
remove_empty_elements(h, tx) ==
    traverse(h, tx, "remove_empty_elements", <<<<>>>>).heap

\* simplify_labels(tx): the heap after it.
simplify_labels(h, tx) ==
    traverse(h, tx, "simplify_labels", None).heap

_dummy_labels == {Str_ROOT, Str_TOP}

\* add_root: `tx.head is None or (tx.symbol() and tx.symbol().label in
\* _dummy_labels)`
add_root_relabels(h, tx) ==
    \/ h[tx].head = None
    \/ symbol(h, tx) # None /\ symbol(h, tx).label \in _dummy_labels

\* The arguments add_root passes to TExpr in its else branch.
add_root_nargs == 2

\* add_root(tx, root_label): [err, heap, ret].  The else branch calls
\* TExpr with add_root_nargs arguments; TExpr.__init__ has no default
\* values, so a call with fewer than TExpr_nparams raises TypeError.
add_root(h, tx, root_label) ==
    IF add_root_relabels(h, tx) THEN
        [err |-> "", heap |-> [h EXCEPT ![tx].head = Symbol(root_label)],
         ret |-> tx]
    ELSE IF add_root_nargs # TExpr_nparams THEN
        [err |-> "TypeError", heap |-> h, ret |-> NoNode]
    ELSE
        [err |-> "",
         heap |-> Append(h, TExpr(Symbol(root_label), tx, NoNode)),
         ret |-> Len(h) + 1]

-----------------------------------------------------------------------------
(* all_spans *)

\* A variant of spans_insert that orders by descending number.
RECURSIVE spans_insert_desc(_, _)
spans_insert_desc(sorted, e) ==
    IF sorted = <<>> THEN <<e>>
    ELSE IF e[1] > Head(sorted)[1] THEN <<e>> \o sorted
    ELSE <<Head(sorted)>> \o spans_insert_desc(Tail(sorted), e)

\* list.sort on the (num, span) pairs: every num is different, so the
\* order is that of num.  Insertion into a sorted list.
RECURSIVE spans_insert(_, _)
spans_insert(sorted, e) ==
    IF sorted = <<>> THEN <<e>>
    ELSE IF e[1] < Head(sorted)[1] THEN <<e>> \o sorted
    ELSE <<Head(sorted)>> \o spans_insert(Tail(sorted), e)

\* A variant of spans_sort that leaves the list in the order of emission.
spans_unsorted(l) == l

RECURSIVE spans_sort(_)
spans_sort(l) ==
    IF l = <<>> THEN <<>> ELSE spans_insert(spans_sort(Pop(l)), Last(l))

\* The (num, span) pairs of all_spans after spans.sort().
all_spans_numbered(h, tx) ==
    spans_sort(
        traverse(h, tx, "all_spans",
            [spans |-> <<>>, stack |-> <<>>, begin |-> 0, count |-> 0]
        ).state.spans)

\* all_spans(tx): [s for n,s in spans]
all_spans(h, tx) ==
    LET l == all_spans_numbered(h, tx) IN [i \in DOMAIN l |-> l[i][2]]

-----------------------------------------------------------------------------
(* The input: which token may come next *)

\* The change of depth a token makes.
DepthStep(tok) ==
    IF istok(tok, LPAREN_TOKEN) THEN 1
    ELSE IF istok(tok, RPAREN_TOKEN) THEN -1 ELSE 0

RECURSIVE Depth(_)
\* The number of "(" less the number of ")" in a token sequence.
Depth(toks) ==
    IF toks = <<>> THEN 0 ELSE Depth(Pop(toks)) + DepthStep(Last(toks))

\* Where the first n tokens of a treebank-shaped stream end: "top" (outside
\* every group), "open" (after "("), "label" (after "(" and an atom),
\* "word" (after "(" and two atoms), "group" (after an inner group).
ShapeAt(toks, n, d) ==
    IF n = 0 THEN "top"
    ELSE IF istok(toks[n], LPAREN_TOKEN) THEN "open"
    ELSE IF istok(toks[n], RPAREN_TOKEN) THEN
        (IF d = 0 THEN "top" ELSE "group")
    ELSE IF n >= 2 /\ istok(toks[n - 1], LPAREN_TOKEN) THEN "label"
    ELSE "word"

\* The fewest tokens that complete a treebank-shaped stream which is at
\* depth d in place `at`.
MinRest(at, d) ==
    CASE at = "open" -> d + 2
      [] at = "label" -> d + 1
      [] OTHER -> d

\* tok may follow the first n tokens of the treebank-shaped stream toks,
\* which are at depth d: the groups are (tag word), (label group ...) and
\* ( group ... ), one after another, and the stream can still be completed
\* within MaxTokens tokens.
Shaped(toks, n, d, tok) ==
    LET at == ShapeAt(toks, n, d)
    IN  CASE istok(tok, LPAREN_TOKEN) ->
                at \in {"top", "open", "label", "group"}
                    /\ n + 1 + MinRest("open", d + 1) <= MaxTokens
          [] istok(tok, STRING_TOKEN) ->
                \/ at = "open" /\ d = 1 /\ tok.value \in TopLabelAtoms
                        /\ n + 1 + MinRest("label", d) <= MaxTokens
                \/ at = "open" /\ d > 1 /\ tok.value \in LabelAtoms
                        /\ n + 1 + MinRest("label", d) <= MaxTokens
                \/ at = "label" /\ tok.value \in WordAtoms
          [] OTHER ->
                at \in {"word", "group"} /\ d > 0

\* The depth after the tokens of toks from the n-th on, when all of them
\* are Shaped; -1 when one is not.
RECURSIVE ShapedFrom(_, _, _)
ShapedFrom(toks, n, d) ==
    IF n > Len(toks) THEN d
    ELSE IF Shaped(toks, n - 1, d, toks[n])
    THEN ShapedFrom(toks, n + 1, d + DepthStep(toks[n]))
    ELSE -1

\* The streams the model feeds the lexer: every stream of at most MaxFree
\* tokens, every treebank-shaped stream of at most MaxTokens tokens, and
\* (the input may end anywhere) every prefix of one.
InputAllows(toks, tok) ==
    IF Len(toks) < MaxFree THEN TRUE
    ELSE LET d == ShapedFrom(toks, 1, 0)
         IN  IF d < 0 THEN FALSE ELSE Shaped(toks, Len(toks), d, tok)

-----------------------------------------------------------------------------
(* Actions *)

Init ==
    /\ consumed = <<>>
    /\ stack = <<>>
    /\ heap = <<>>
    /\ pc = "parse"
    /\ err = ""
    /\ t = NoNode
    /\ ntrees = 0
    /\ ops = <<>>
    /\ ret = None
    /\ orig = [heap |-> <<>>, root |-> NoNode]
    /\ rt_label = None
    /\ rt_sym = None
    /\ rt_str = None
    /\ rt_sym2 = None

\* parse: the for loop takes "(" or a string from lex and pushes it.
ParseShift ==
    /\ pc = "parse"
    /\ \E tok \in Tokens :
        /\ ~istok(tok, RPAREN_TOKEN)
        /\ InputAllows(consumed, tok)
        /\ consumed' = Append(consumed, tok)
        /\ stack' = parse_token(stack, heap, tok).stack
    /\ UNCHANGED <<heap, pc, err, t, ntrees, ops, ret, orig>>
    /\ UNCHANGED rt_vars

\* parse: the for loop takes ")" from lex: it makes a Leaf, or reduces a
\* group and pushes or yields it, or raises IndexError.
ParseReduce ==
    /\ pc = "parse"
    /\ InputAllows(consumed, Token(RPAREN_TOKEN, None))
    /\ consumed' = Append(consumed, Token(RPAREN_TOKEN, None))
    /\ LET r == parse_token(stack, heap, Token(RPAREN_TOKEN, None))
       IN  /\ stack' = r.stack
           /\ heap' = r.heap
           /\ err' = r.err
           /\ pc' = IF r.err # "" THEN "error"
                    ELSE IF r.yielded # NoNode THEN "yield" ELSE "parse"
           /\ t' = r.yielded
           /\ ntrees' = IF r.yielded # NoNode THEN ntrees + 1 ELSE ntrees
           /\ orig' = IF r.yielded # NoNode
                      THEN [heap |-> r.heap, root |-> r.yielded]
                      ELSE orig
    /\ UNCHANGED <<ops, ret>>
    /\ UNCHANGED rt_vars

\* parse: lex is exhausted, the for loop ends and the generator returns.
ParseEnd ==
    /\ pc = "parse"
    /\ pc' = "done"
    /\ UNCHANGED <<consumed, stack, heap, err, t, ntrees, ops, ret, orig>>
    /\ UNCHANGED rt_vars

\* The caller's calls follow the order of main() and of the tests:
\* remove_empty_elements, then simplify_labels, then add_root, each of
\* them optional.
Stage(op) ==
    CASE op = "remove_empty_elements" -> 1
      [] op = "simplify_labels" -> 2
      [] OTHER -> 3

MayCall(op) == IF ops = <<>> THEN TRUE ELSE Stage(Last(ops)[1]) < Stage(op)

\* The caller calls remove_empty_elements(t).
RemoveEmptyElements ==
    /\ pc = "yield"
    /\ MayCall("remove_empty_elements")
    /\ heap' = remove_empty_elements(heap, t)
    /\ ret' = None
    /\ ops' = Append(ops, <<"remove_empty_elements">>)
    /\ UNCHANGED <<consumed, stack, pc, err, t, ntrees, orig>>
    /\ UNCHANGED rt_vars

\* The caller calls simplify_labels(t).
SimplifyLabels ==
    /\ pc = "yield"
    /\ MayCall("simplify_labels")
    /\ heap' = simplify_labels(heap, t)
    /\ ret' = None
    /\ ops' = Append(ops, <<"simplify_labels">>)
    /\ UNCHANGED <<consumed, stack, pc, err, t, ntrees, orig>>
    /\ UNCHANGED rt_vars

\* The add_root calls the caller has made on t.
AddRootCalls == SelectSeq(ops, LAMBDA o : o[1] = "add_root")

\* The caller runs t = add_root(t, root_label), with the root label it
\* used before on this tree if it used one; a TypeError ends it.
AddRoot ==
    /\ pc = "yield"
    /\ Len(AddRootCalls) < MaxAddRoot
    /\ \E root_label \in RootLabels :
        LET r == add_root(heap, t, root_label)
        IN  /\ IF AddRootCalls = <<>> THEN TRUE
               ELSE root_label = AddRootCalls[1][2]
            /\ heap' = r.heap
            /\ err' = r.err
            /\ pc' = IF r.err # "" THEN "error" ELSE pc
            /\ t' = IF r.err # "" THEN t ELSE r.ret
            /\ ret' = IF r.err # "" THEN None ELSE <<r.ret>>
            /\ ops' = Append(ops, <<"add_root", root_label>>)
    /\ UNCHANGED <<consumed, stack, ntrees, orig>>
    /\ UNCHANGED rt_vars

\* The caller asks the generator for the next tree; the tree it held is
\* dropped (nothing of it is on the parser's stack, which is empty).
Resume ==
    /\ pc = "yield"
    /\ pc' = "parse"
    /\ t' = NoNode
    /\ heap' = <<>>
    /\ orig' = [heap |-> <<>>, root |-> NoNode]
    /\ ops' = <<>>
    /\ ret' = None
    /\ UNCHANGED <<consumed, stack, err, ntrees>>
    /\ UNCHANGED rt_vars

Next ==
    \/ ParseShift
    \/ ParseReduce
    \/ ParseEnd
    \/ RemoveEmptyElements
    \/ SimplifyLabels
    \/ AddRoot
    \/ Resume

Spec == Init /\ [][Next]_vars

-----------------------------------------------------------------------------
(* Symbol on its own: a label string is decoded, the Symbol is written    *)
(* with str(), and what is written is decoded again.                      *)

\* The characters of the label strings: two that [^0-9=-] matches, the two
\* separators, two digits.
LabelChars == {"A", "B", "-", "=", "1", "2"}

\* Every string of 1 to MaxLabelLen of these characters.
LabelStrings == UNION {[1..n -> LabelChars] : n \in 1..MaxLabelLen}

SymbolInit ==
    /\ consumed = <<>>
    /\ stack = <<>>
    /\ heap = <<>>
    /\ pc = "parse"
    /\ err = ""
    /\ t = NoNode
    /\ ntrees = 0
    /\ ops = <<>>
    /\ ret = None
    /\ orig = [heap |-> <<>>, root |-> NoNode]
    /\ rt_label \in LabelStrings
    /\ rt_sym = None
    /\ rt_str = None
    /\ rt_sym2 = None

\* s = Symbol(label)
SymbolDecode ==
    /\ rt_label # None
    /\ rt_sym = None
    /\ rt_sym' = <<Symbol(rt_label)>>
    /\ UNCHANGED <<rt_label, rt_str, rt_sym2>>
    /\ UNCHANGED parse_vars

\* str(s)
SymbolSerialize ==
    /\ rt_sym # None
    /\ rt_str = None
    /\ rt_str' = <<SymbolStr(rt_sym[1])>>
    /\ UNCHANGED <<rt_label, rt_sym, rt_sym2>>
    /\ UNCHANGED parse_vars

\* Symbol(str(s))
SymbolRedecode ==
    /\ rt_str # None
    /\ rt_sym2 = None
    /\ rt_sym2' = <<Symbol(rt_str[1])>>
    /\ UNCHANGED <<rt_label, rt_sym, rt_str>>
    /\ UNCHANGED parse_vars

SymbolNext ==
    \/ SymbolDecode
    \/ SymbolSerialize
    \/ SymbolRedecode

SymbolSpec == SymbolInit /\ [][SymbolNext]_vars

-----------------------------------------------------------------------------
(* What the claims speak of: the input read so far *)

\* The depth after each prefix of toks never went below zero.
RECURSIVE NeverNegative(_)
NeverNegative(toks) ==
    IF toks = <<>> THEN TRUE
    ELSE NeverNegative(Pop(toks)) /\ Depth(toks) >= 0

\* Some string token of toks stands outside every parenthesis.
RECURSIVE HasDepth0Atom(_)
HasDepth0Atom(toks) ==
    IF toks = <<>> THEN FALSE
    ELSE \/ HasDepth0Atom(Pop(toks))
         \/ istok(Last(toks), STRING_TOKEN) /\ Depth(Pop(toks)) = 0

\* The number of top-level groups toks has closed.
RECURSIVE ClosedGroups(_)
ClosedGroups(toks) ==
    IF toks = <<>> THEN 0
    ELSE ClosedGroups(Pop(toks))
            + (IF istok(Last(toks), RPAREN_TOKEN) /\ Depth(toks) = 0
               THEN 1 ELSE 0)

\* toks is a sequence of balanced top-level groups and nothing else.
OnlyGroups(toks) ==
    NeverNegative(toks) /\ ~HasDepth0Atom(toks) /\ Depth(toks) = 0

-----------------------------------------------------------------------------
(* Claims about parse *)

\* C1 (as claimed): when the input read so far is k balanced top-level
\* groups, a group (TAG WORD) among them or not, the parser has yielded
\* exactly k trees and its stack is empty.
C1_OneTreePerGroup ==
    (pc \in {"parse", "yield", "done"} /\ OnlyGroups(consumed))
        => (stack = <<>> /\ ntrees = ClosedGroups(consumed))

\* C8 (as claimed): a ")" without its "(" raises, and parse does not
\* finish normally on an input that ends with a "(" still open.
C8_UnbalancedRaises ==
    /\ ~NeverNegative(consumed) => pc = "error"
    /\ pc = "done" => Depth(consumed) = 0

\* C9 (as claimed): parse does not finish normally on an input with a
\* string token outside every parenthesis.
C9_Depth0AtomRejected ==
    pc = "done" => ~HasDepth0Atom(consumed)

-----------------------------------------------------------------------------
(* What the claims speak of: trees *)

Range(f) == {f[i] : i \in DOMAIN f}

\* The nodes of the tree under n, n first, in depth-first left-to-right
\* order.
RECURSIVE PreOrder(_, _)
RECURSIVE PreOrderAll(_, _)
PreOrder(h, n) == <<n>> \o PreOrderAll(h, children(h, n))
PreOrderAll(h, ns) ==
    IF ns = <<>> THEN <<>>
    ELSE PreOrder(h, Head(ns)) \o PreOrderAll(h, Tail(ns))

Nodes(h, n) == Range(PreOrder(h, n))

IsTerminal(h, n) == "pos" \in DOMAIN h[n].head
IsNonTerminal(h, n) == "label" \in DOMAIN h[n].head
\* A Terminal whose tag is not -NONE-.
IsWord(h, n) == IsTerminal(h, n) /\ h[n].head.pos # Str_NONE
IsEmptyElement(h, n) == IsTerminal(h, n) /\ h[n].head.pos = Str_NONE

\* The number of words the tree under n holds.
Words(h, n) == Cardinality({m \in Nodes(h, n) : IsWord(h, m)})

\* The place of n in the depth-first order of the tree under root, from 1.
IndexIn(h, root, n) ==
    CHOOSE i \in DOMAIN PreOrder(h, root) : PreOrder(h, root)[i] = n

\* The number of words of the tree under root that stand before n.
WordsBefore(h, root, n) ==
    LET po == PreOrder(h, root)
    IN  Cardinality({i \in 1..(IndexIn(h, root, n) - 1) : IsWord(h, po[i])})

\* a is a proper ancestor of b.
IsAncestor(h, a, b) == a # b /\ b \in Nodes(h, a)

\* The label all_spans is to report for n: a Terminal's tag, a
\* NonTerminal's label as written.
SpanLabel(h, n) ==
    IF IsTerminal(h, n) THEN h[n].head.pos ELSE SymbolStr(h[n].head)

Labelled(h, n) == IsTerminal(h, n) \/ IsNonTerminal(h, n)

\* The entry of all_spans' sorted list that node n of the tree under root
\* was given, or <<>>: the node visited k-th has the number k - 1.
SpanEntries(h, root, n) ==
    SelectSeq(all_spans_numbered(h, root),
              LAMBDA e : e[1] = IndexIn(h, root, n) - 1)

\* The place in all_spans(root) of the span of n.
SpanIndex(h, root, n) ==
    LET l == all_spans_numbered(h, root)
    IN  CHOOSE i \in DOMAIN l : l[i][1] = IndexIn(h, root, n) - 1

\* A tree is in the caller's hands, as parse() yielded it.
HoldsParsedTree == pc = "yield" /\ ops = <<>>

-----------------------------------------------------------------------------
(* Claims about all_spans *)

\* C4: for every labelled node of a parsed tree all_spans reports exactly
\* one span, (label, b, e), where b is the number of words before the node
\* and e - b the number of words under it; so 0 <= b <= e, and the
\* outermost labelled node, when there is one, has the span (0, number of
\* words of the tree).
C4_SpanIsWordRange ==
    HoldsParsedTree =>
        /\ \A n \in Nodes(heap, t) :
            IF Labelled(heap, n) THEN
                LET b == WordsBefore(heap, t, n)
                IN  /\ SpanEntries(heap, t, n) =
                        << <<IndexIn(heap, t, n) - 1,
                             <<SpanLabel(heap, n), b, b + Words(heap, n)>> >> >>
                    /\ 0 <= b
            ELSE SpanEntries(heap, t, n) = <<>>
        /\ Len(all_spans(heap, t))
                = Cardinality({n \in Nodes(heap, t) : Labelled(heap, n)})
        /\ LET tops == {n \in Nodes(heap, t) :
                            /\ Labelled(heap, n)
                            /\ \A a \in Nodes(heap, t) :
                                    IsAncestor(heap, a, n) => ~Labelled(heap, a)}
           IN  \A n \in tops : tops = {n} =>
                    all_spans(heap, t)[SpanIndex(heap, t, n)]
                        = <<SpanLabel(heap, n), 0, Words(heap, t)>>

\* C4's case: a parsed tree with an empty element after a word (a
\* zero-width span that does not begin at 0) under a node with two words.
C4_Witness ==
    /\ HoldsParsedTree
    /\ \E n \in Nodes(heap, t) :
            IsEmptyElement(heap, n) /\ WordsBefore(heap, t, n) >= 1
    /\ \E n \in Nodes(heap, t) : IsNonTerminal(heap, n) /\ Words(heap, n) >= 2

\* The three keys of the claimed sort order, compared: begin ascending,
\* then zero-width spans first, then the larger end first.
ThreeKeyLeq(a, b) ==
    \/ a[2] < b[2]
    \/ /\ a[2] = b[2]
       /\ \/ a[3] = a[2] /\ b[3] # b[2]
          \/ /\ (a[3] = a[2]) = (b[3] = b[2])
             /\ a[3] >= b[3]

\* C5 (as claimed): the list all_spans returns is in the three-key order.
C5_ThreeKeyOrder ==
    HoldsParsedTree =>
        LET l == all_spans(heap, t)
        IN  \A i, j \in DOMAIN l : i < j => ThreeKeyLeq(l[i], l[j])

\* C5 (amended): the list is in ascending order of begin and, among spans
\* of equal begin that are both zero-width or both not, larger end first;
\* a zero-width span is not moved before the non-empty spans of its begin:
\* the spans stand in the depth-first order of their nodes.
C5_OrderAmended ==
    HoldsParsedTree =>
        LET l == all_spans(heap, t)
            po == SelectSeq(PreOrder(heap, t), LAMBDA n : Labelled(heap, n))
        IN  /\ \A i, j \in DOMAIN l : i < j =>
                /\ l[i][2] <= l[j][2]
                /\ (l[i][2] = l[j][2] /\ (l[i][3] = l[i][2]) = (l[j][3] = l[j][2]))
                        => l[i][3] >= l[j][3]
            /\ Len(l) = Len(po)
            /\ \A i \in DOMAIN l : SpanIndex(heap, t, po[i]) = i

\* C5's case: an empty element is the first child of a node that holds a
\* word, and its zero-width span stands after that node's span.
C5_Witness ==
    /\ HoldsParsedTree
    /\ \E a, b \in Nodes(heap, t) :
        /\ IsNonTerminal(heap, a) /\ Words(heap, a) >= 1
        /\ heap[a].first_child = b
        /\ IsEmptyElement(heap, b)
        /\ SpanIndex(heap, t, a) < SpanIndex(heap, t, b)

\* C6: when A is a proper ancestor of B, both labelled, in a parsed tree,
\* the span of A contains the span of B, and the span of A stands before
\* the span of B in the list if they begin at the same place.
C6_AncestorFirst ==
    HoldsParsedTree =>
        \A a, b \in {n \in Nodes(heap, t) : Labelled(heap, n)} :
            IsAncestor(heap, a, b) =>
                LET l == all_spans(heap, t)
                    sa == l[SpanIndex(heap, t, a)]
                    sb == l[SpanIndex(heap, t, b)]
                IN  /\ sa[2] <= sb[2] /\ sb[3] <= sa[3]
                    /\ sa[2] = sb[2] =>
                            SpanIndex(heap, t, a) < SpanIndex(heap, t, b)

\* C6's case: a node that holds a word, a node under it and an empty
\* element under that one all begin at the same place.
C6_Witness ==
    /\ HoldsParsedTree
    /\ \E a, c, b \in {n \in Nodes(heap, t) : Labelled(heap, n)} :
        /\ IsAncestor(heap, a, c) /\ IsAncestor(heap, c, b)
        /\ IsEmptyElement(heap, b)
        /\ Words(heap, a) >= 1
        /\ WordsBefore(heap, t, a) = WordsBefore(heap, t, b)

-----------------------------------------------------------------------------
(* Claims about the transforms *)

\* remove_empty_elements is to delete n: an empty element, or a node that
\* has children, every one of them deleted.
RECURSIVE Vanishes(_, _)
Vanishes(h, n) ==
    IF IsTerminal(h, n) THEN IsEmptyElement(h, n)
    ELSE /\ children(h, n) # <<>>
         /\ \A c \in Range(children(h, n)) : Vanishes(h, c)

\* The caller has made exactly these calls on the tree it holds.
Called(calls) == pc \in {"yield", "error"} /\ t # NoNode /\ ops = calls

\* What C2 says of the tree after remove_empty_elements: no deleted node
\* is linked into it, and each node's children are those of its original
\* children that are still linked, in their original order.
EmptiesRemoved ==
    /\ \A n \in Nodes(heap, t) : ~Vanishes(orig.heap, n)
    /\ \A n \in Nodes(heap, t) :
            children(heap, n)
                = SelectSeq(children(orig.heap, n),
                            LAMBDA c : c \in Nodes(heap, t))

\* C2 (as claimed): after remove_empty_elements on any parsed tree the
\* empty elements and the nodes left without children are gone from the
\* tree and the survivors keep their order.
C2_EmptiesRemoved ==
    Called(<< <<"remove_empty_elements">> >>) => EmptiesRemoved

\* C2, for the trees that hold a word: there it holds.
C2_EmptiesRemovedWhenAWordIsLeft ==
    (Called(<< <<"remove_empty_elements">> >>)
        /\ Words(orig.heap, orig.root) >= 1) => EmptiesRemoved

\* Every Terminal of the parsed tree is an empty element, and there is one.
AllTerminalsEmpty ==
    /\ \E n \in Nodes(orig.heap, orig.root) : IsTerminal(orig.heap, n)
    /\ \A n \in Nodes(orig.heap, orig.root) :
            IsTerminal(orig.heap, n) => IsEmptyElement(orig.heap, n)

\* C10 (as claimed): on a tree whose Terminals are all empty elements,
\* remove_empty_elements returns a value that tells the caller so, and
\* does not return None with the tree left as it was.
C10_EmptyTreeReported ==
    (Called(<< <<"remove_empty_elements">> >>) /\ AllTerminalsEmpty) =>
        /\ ret # None
        /\ ~(ret = None
                /\ \A n \in Nodes(orig.heap, orig.root) : heap[n] = orig.heap[n])

\* C3 (as claimed): add_root(tree, root_label) on a parsed tree whose root
\* is a NonTerminal labelled neither ROOT nor TOP returns a new
\* NonTerminal labelled root_label whose only child is the tree, and
\* leaves the tree's nodes as they were.
C3_NewRootAdded ==
    \A root_label \in RootLabels :
        (Called(<< <<"add_root", root_label>> >>)
            /\ IsNonTerminal(orig.heap, orig.root)
            /\ orig.heap[orig.root].head.label \notin _dummy_labels)
        =>  /\ pc = "yield"
            /\ t \notin DOMAIN orig.heap
            /\ t \in DOMAIN heap
            /\ IsNonTerminal(heap, t)
            /\ heap[t].head = Symbol(root_label)
            /\ children(heap, t) = <<orig.root>>
            /\ \A n \in DOMAIN orig.heap : heap[n] = orig.heap[n]

\* The label simplify_labels leaves a node of the parsed tree: a
\* Terminal's tag, a NonTerminal's bare label.
BareLabel(h, n) ==
    IF IsTerminal(h, n) THEN h[n].head.pos ELSE h[n].head.label

\* The node of the parsed tree has a span that is not zero-width.
HasWidth(n) ==
    /\ Labelled(orig.heap, n)
    /\ SpanEntries(orig.heap, orig.root, n)[1][2][3]
            > SpanEntries(orig.heap, orig.root, n)[1][2][2]

\* (ROOT, 0, number of words) and the spans all_spans gives the parsed
\* tree that are not zero-width, each with the label lab gives its node.
RelabelledSpans(lab(_), root) ==
    {<<root, 0, Words(orig.heap, orig.root)>>}
        \cup {<<lab(n),
                SpanEntries(orig.heap, orig.root, n)[1][2][2],
                SpanEntries(orig.heap, orig.root, n)[1][2][3]>> :
              n \in {m \in Nodes(orig.heap, orig.root) : HasWidth(m)}}

\* The spans of the parsed tree with bare labels.
BareSpans == RelabelledSpans(LAMBDA n : BareLabel(orig.heap, n), Str_ROOT)

\* The label all_spans gives a node of the reference tree, which is
\* written with bare labels and parsed: parse decodes the label it reads
\* with Symbol, and all_spans prints the Symbol.
ReferenceLabel(n) ==
    IF IsTerminal(orig.heap, n) THEN orig.heap[n].head.pos
    ELSE SymbolStr(Symbol(BareLabel(orig.heap, n)))

\* The spans of the reference tree, parsed on its own.
ReferenceSpans ==
    RelabelledSpans(ReferenceLabel, SymbolStr(Symbol(Str_ROOT)))

\* The caller has run the pipeline of the tests on a tree parsed from a
\* group with no label that holds a word.
PipelineDone ==
    /\ Called(<< <<"remove_empty_elements">>, <<"simplify_labels">>,
                 <<"add_root", Str_ROOT>> >>)
    /\ orig.heap[orig.root].head = None
    /\ Words(orig.heap, orig.root) >= 1

\* C7 (as claimed): after remove_empty_elements(t), simplify_labels(t),
\* t = add_root(t) on such a tree, the set of spans of t is the set of
\* spans of the reference tree parsed on its own, which is (ROOT, 0, N)
\* and the spans of the parsed tree that are not zero-width, with bare
\* labels.
C7_PipelineMatchesReference ==
    PipelineDone =>
        /\ pc = "yield"
        /\ Range(all_spans(heap, t)) = ReferenceSpans
        /\ ReferenceSpans = BareSpans

\* The half of C7 that holds of every such tree: the spans after the
\* pipeline are (ROOT, 0, N) and the spans of the parsed tree that are not
\* zero-width, with bare labels.
PipelineSpansAreBare ==
    PipelineDone =>
        /\ pc = "yield"
        /\ Range(all_spans(heap, t)) = BareSpans

\* A label that begins as Symbol._pat wants a label to begin.
BeginsWithLabel(s) == s # <<>> /\ IsLabelChar(s[1])

\* The other half holds of the trees whose NonTerminals all have such a
\* label.
PipelineMatchesReferenceOfLabels ==
    (PipelineDone
        /\ \A n \in Nodes(orig.heap, orig.root) :
                IsNonTerminal(orig.heap, n)
                    => BeginsWithLabel(orig.heap[n].head.label))
    => Range(all_spans(heap, t)) = ReferenceSpans

\* The pipeline has run on a tree with a constituent that held only an
\* empty element, and a NonTerminal with a decorated label that holds a
\* word.
PipelineCase ==
    /\ PipelineDone
    /\ \E n \in Nodes(orig.heap, orig.root) :
            /\ IsNonTerminal(orig.heap, n)
            /\ Words(orig.heap, n) = 0
            /\ \E c \in Range(children(orig.heap, n)) :
                    IsEmptyElement(orig.heap, c)
    /\ \E n \in Nodes(orig.heap, orig.root) :
            /\ IsNonTerminal(orig.heap, n)
            /\ Words(orig.heap, n) >= 1
            /\ orig.heap[n].head.tags # <<>>
            /\ BeginsWithLabel(orig.heap[n].head.label)

-----------------------------------------------------------------------------
(* Claims about add_root called twice *)

\* The tree at n1 in h1 and the tree at n2 in h2 have the same heads and
\* the same shape.
RECURSIVE SameTree(_, _, _, _)
SameTree(h1, n1, h2, n2) ==
    /\ h1[n1].head = h2[n2].head
    /\ LET c1 == children(h1, n1)
           c2 == children(h2, n2)
       IN  /\ Len(c1) = Len(c2)
           /\ \A i \in DOMAIN c1 : SameTree(h1, c1[i], h2, c2[i])

\* What C11 says of the tree after t = add_root(t, root_label) twice: the
\* second call returns, and its tree is the tree the first call returned
\* for the parsed tree, with no node added.
RootedOnce(root_label) ==
    LET once == add_root(orig.heap, orig.root, root_label)
    IN  /\ pc = "yield"
        /\ ret # None
        /\ SameTree(heap, t, once.heap, once.ret)
        /\ Len(heap) = Len(once.heap)

\* C11 (as claimed): for every root_label and every parsed tree t,
\* add_root(add_root(t, root_label), root_label) is structurally equal to
\* add_root(t, root_label) and adds no second root node.
C11_AddRootIdempotent ==
    \A root_label \in RootLabels :
        Called(<< <<"add_root", root_label>>, <<"add_root", root_label>> >>)
            => RootedOnce(root_label)

\* C11, for the root labels ROOT and TOP: there it holds.
AddRootIdempotentForDummyLabels ==
    \A root_label \in RootLabels \cap _dummy_labels :
        Called(<< <<"add_root", root_label>>, <<"add_root", root_label>> >>)
            => RootedOnce(root_label)

\* add_root has been called twice with ROOT on a tree parsed from a group
\* with no label that has a NonTerminal below it.
AddRootTwiceCase ==
    /\ Called(<< <<"add_root", Str_ROOT>>, <<"add_root", Str_ROOT>> >>)
    /\ orig.heap[orig.root].head = None
    /\ \E n \in Nodes(heap, t) : n # t /\ IsNonTerminal(heap, n)

-----------------------------------------------------------------------------
(* Claims about Symbol *)

\* C12: when a label string begins with a character other than a digit,
\* "=" and "-", the Symbol decoded from the serialization of its Symbol
\* has the same label, the same tags in the same order, the same coindex
\* and the same parindex as its Symbol, wherever the tags and the indices
\* stand in the string.
C12_SymbolRoundTrip ==
    (rt_sym2 # None /\ IsLabelChar(rt_label[1])) =>
        /\ rt_sym2[1].label = rt_sym[1].label
        /\ rt_sym2[1].tags = rt_sym[1].tags
        /\ rt_sym2[1].coindex = rt_sym[1].coindex
        /\ rt_sym2[1].parindex = rt_sym[1].parindex

\* C12's case: the round trip is done for a label with a tag after its
\* coindex, which the serialization writes in another order.
C12_Witness ==
    /\ rt_sym2 # None
    /\ IsLabelChar(rt_label[1])
    /\ rt_sym[1].tags # <<>>
    /\ rt_sym[1].coindex # None
    /\ rt_str[1] # rt_label

\* The round trip is done for a label with two tags, and for one with both
\* indices, the coindex first.
SymbolRoundTripCases ==
    /\ rt_sym2 # None
    /\ IsLabelChar(rt_label[1])
    /\ \/ Len(rt_sym[1].tags) = 2 /\ rt_sym[1].tags[1] # rt_sym[1].tags[2]
       \/ /\ rt_sym[1].coindex # None /\ rt_sym[1].parindex # None
          /\ rt_str[1] # rt_label

=============================================================================
